---- MODULE Spec2Model ----
(***************************************************************************)
(* Object layer of the VM object model (vm-object-model/src/object.rs).    *)
(*                                                                         *)
(* Memory is an array of 64-bit words.  A word is kept as its eight bytes, *)
(* most significant first, so that the shifts and the signed/unsigned      *)
(* conversion of amount_of_slots_unchecked are computed on all 64 bits.    *)
(* An object is designated by the byte address of its header, as &Object   *)
(* is in the source (Object is repr(transparent) over ObjectHeader).       *)
(***************************************************************************)
EXTENDS Naturals, Sequences, FiniteSets

VARIABLES mem, objects, last, puts, writes, gcSteps, forwards, inflight

vars == <<mem, objects, last, puts, writes, gcSteps, forwards, inflight>>

----------------------------------------------------------------------------
(* Bounds of the model *)

\* slots of the two fixed-size pointer objects of the small heap
NumFixedSlots == 3
\* the large object has 255 + ExtraSlots slots
ExtraSlots == 1
\* field writes per behaviour
MaxWrites == 2
\* collector steps per behaviour
MaxGcSteps == 1

----------------------------------------------------------------------------
(* Program constants *)

FORWARDED_OBJECT_CLASS_INDEX_PUN == 8
SHIFT_FOR_WORD == 3
\* the inline num_slots value that escapes to the extended count
NumSlotsEscape == 255
\* size_of::<ObjectHeader>(): the header is one 64-bit word
SizeOfObjectHeader == 8
\* size of the i64 that a field access reads or writes
BytesPerWord == 8

----------------------------------------------------------------------------
(* 64-bit words as eight bytes, w[1] the most significant *)

ZeroWord == <<0, 0, 0, 0, 0, 0, 0, 0>>

\* the word of a natural number below 2^31
FromNat(n) ==
    <<0, 0, 0, 0, (n \div 16777216) % 256, (n \div 65536) % 256,
      (n \div 256) % 256, n % 256>>

\* unsigned comparison a < b
WordLess(a, b) ==
    \E k \in 1..8 : a[k] < b[k] /\ \A j \in 1..(k - 1) : a[j] = b[j]

\* x << 8 on an i64: the top byte is shifted out
Shl8(w) == <<w[2], w[3], w[4], w[5], w[6], w[7], w[8], 0>>

\* x >> 8 on a u64: logical shift
Shr8(w) == <<0, w[1], w[2], w[3], w[4], w[5], w[6], w[7]>>

\* the sign of the word read as an i64
IsNegativeI64(w) == w[1] >= 128

----------------------------------------------------------------------------
(* Addresses and raw memory access *)

HeapBase == 8 * 512

WordAddr(k) == HeapBase + BytesPerWord * k

WordIndex(addr) == (addr - HeapBase) \div BytesPerWord

\* unsafe { *pointer } for a pointer to i64
MemRead(m, addr) == m[WordIndex(addr)]

\* unsafe { *pointer = value }
MemWrite(m, addr, w) == [m EXCEPT ![WordIndex(addr)] = w]

----------------------------------------------------------------------------
(* ObjectHeader: one packed word.  num_slots is the top byte, format the   *)
(* five bits from bit 24, class_index the low 22 bits.                     *)

HeaderNumSlots(h) == h[1]

HeaderFormat(h) == h[5] % 32

HeaderClassIndex(h) == (h[6] % 64) * 65536 + h[7] * 256 + h[8]

MkHeader(numSlots, hash, format, classIndex) ==
    <<numSlots, 0, 0, hash, format, classIndex \div 65536,
      (classIndex \div 256) % 256, classIndex % 256>>

\* the header with its class_index field replaced
WithClassIndex(h, classIndex) ==
    <<h[1], h[2], h[3], h[4], h[5],
      (h[6] \div 64) * 64 + classIndex \div 65536,
      (classIndex \div 256) % 256, classIndex % 256>>

----------------------------------------------------------------------------
(* RawObjectPointer and AnyObjectRef *)

TagMask == 7

\* RawObjectPointer::is_immediate: some low tag bit is set
is_immediate(w) == w[8] % (TagMask + 1) # 0

\* AnyObjectRef::from(RawObjectPointer): the sum of immediate and reference
AnyObjectRefFrom(w) ==
    [variant |-> IF is_immediate(w) THEN "Immediate" ELSE "Object", raw |-> w]

\* AnyObjectRef::as_i64
as_i64(any) == any.raw

\* the immediate small integer n: the value above the tag bits, tag 1
SmallInteger(n) == FromNat(n * (TagMask + 1) + 1)

----------------------------------------------------------------------------
(* Results of the operations *)

ResUsize(w) == [kind |-> "Usize", word |-> w, flag |-> FALSE, ref |-> ZeroWord]
ResBool(b) == [kind |-> "Bool", word |-> ZeroWord, flag |-> b, ref |-> ZeroWord]
ResNone == [kind |-> "None", word |-> ZeroWord, flag |-> FALSE, ref |-> ZeroWord]
ResSomeBool(b) == [kind |-> "Some", word |-> ZeroWord, flag |-> b, ref |-> ZeroWord]
ResSomeAny(any) ==
    [kind |-> "Some", word |-> as_i64(any), flag |-> any.variant = "Immediate",
     ref |-> ZeroWord]
ResOk(b) == [kind |-> "Ok", word |-> ZeroWord, flag |-> b, ref |-> ZeroWord]
ResErrForwardedUnsupported(r, h) ==
    [kind |-> "ForwardedUnsupported", word |-> h, flag |-> FALSE, ref |-> r]
\* Ok(ObjectRef): ref is the pointer the ObjectRef wraps
ResOkRef(r) == [kind |-> "OkRef", word |-> ZeroWord, flag |-> FALSE, ref |-> r]
\* Err(Error::NotAnObject(pointer))
ResErrNotAnObject(p) ==
    [kind |-> "NotAnObject", word |-> p, flag |-> FALSE, ref |-> ZeroWord]
ResUnit == [kind |-> "Unit", word |-> ZeroWord, flag |-> FALSE, ref |-> ZeroWord]
\* assert! failed in amount_of_slots
ResAssertPanic ==
    [kind |-> "AssertPanic", word |-> ZeroWord, flag |-> FALSE, ref |-> ZeroWord]
\* unwrap() of a failed u64::try_from
ResUnwrapPanic ==
    [kind |-> "UnwrapPanic", word |-> ZeroWord, flag |-> FALSE, ref |-> ZeroWord]

Aborted(res) == res.kind \in {"AssertPanic", "UnwrapPanic"}

----------------------------------------------------------------------------
(* impl Object *)

as_ptr(self) == self

header(m, self) == MemRead(m, as_ptr(self))

\* variant: the escape test also takes 254
amount_of_slots_unchecked_EscapeFrom254(m, self) ==
    LET num_slots == HeaderNumSlots(header(m, self)) IN
    IF num_slots >= NumSlotsEscape - 1
    THEN LET ptr == as_ptr(self) - SizeOfObjectHeader
             shifted == Shl8(MemRead(m, ptr))
         IN  IF IsNegativeI64(shifted)
             THEN ResUnwrapPanic
             ELSE ResUsize(Shr8(shifted))
    ELSE ResUsize(FromNat(num_slots))

\* variant: the shifts are swapped, which clears the low byte of the word
amount_of_slots_unchecked_MasksLowByte(m, self) ==
    LET num_slots == HeaderNumSlots(header(m, self)) IN
    IF num_slots = NumSlotsEscape
    THEN LET ptr == as_ptr(self) - SizeOfObjectHeader
         IN  ResUsize(Shl8(Shr8(MemRead(m, ptr))))
    ELSE ResUsize(FromNat(num_slots))

amount_of_slots_unchecked(m, self) ==
    LET num_slots == HeaderNumSlots(header(m, self)) IN
    IF num_slots = NumSlotsEscape
    THEN LET ptr == as_ptr(self) - SizeOfObjectHeader
             shifted == Shl8(MemRead(m, ptr))
         IN  IF IsNegativeI64(shifted)
             THEN ResUnwrapPanic
             ELSE ResUsize(Shr8(shifted))
    ELSE ResUsize(FromNat(num_slots))

\* variant: the assertion compares with >=
amount_of_slots_AssertsFromPun(m, self) ==
    IF ~(HeaderClassIndex(header(m, self)) >= FORWARDED_OBJECT_CLASS_INDEX_PUN)
    THEN ResAssertPanic
    ELSE amount_of_slots_unchecked(m, self)

amount_of_slots(m, self) ==
    IF ~(HeaderClassIndex(header(m, self)) > FORWARDED_OBJECT_CLASS_INDEX_PUN)
    THEN ResAssertPanic
    ELSE amount_of_slots_unchecked(m, self)

\* variant: the comparison is strict
is_forwarded_BelowPun(m, self) ==
    HeaderClassIndex(header(m, self)) < FORWARDED_OBJECT_CLASS_INDEX_PUN

is_forwarded(m, self) ==
    HeaderClassIndex(header(m, self)) <= FORWARDED_OBJECT_CLASS_INDEX_PUN

\* impl From<&Object> for ObjectRef: the address as a raw pointer
ObjectRefFromObject(self) == FromNat(self)

\* variant: identity decided by the headers instead of the addresses
is_identical_ComparesHeaders(m, self, second) ==
    IF is_forwarded(m, self) THEN ResNone
    ELSE IF is_forwarded(m, second) THEN ResNone
    ELSE ResSomeBool(header(m, self) = header(m, second))

is_identical(m, self, second) ==
    IF is_forwarded(m, self) THEN ResNone
    ELSE IF is_forwarded(m, second) THEN ResNone
    ELSE ResSomeBool(as_ptr(self) = as_ptr(second))

\* variant: the forwarding test is made on the receiver too
equals_ChecksBothSides(m, self, other) ==
    IF is_forwarded(m, other) \/ is_forwarded(m, self)
    THEN ResErrForwardedUnsupported(ObjectRefFromObject(self), header(m, other))
    ELSE ResOk(header(m, self) = header(m, other))

\* variant: equality compares the slot counts of the headers only
equals_ComparesNumSlots(m, self, other) ==
    IF is_forwarded(m, other)
    THEN ResErrForwardedUnsupported(ObjectRefFromObject(self), header(m, other))
    ELSE ResOk(HeaderNumSlots(header(m, self)) = HeaderNumSlots(header(m, other)))

\* variant: equality also compares the first field
equals_ComparesFirstField(m, self, other) ==
    IF is_forwarded(m, other)
    THEN ResErrForwardedUnsupported(ObjectRefFromObject(self), header(m, other))
    ELSE ResOk(/\ header(m, self) = header(m, other)
               /\ MemRead(m, as_ptr(self) + SizeOfObjectHeader)
                    = MemRead(m, as_ptr(other) + SizeOfObjectHeader))

equals(m, self, other) ==
    IF is_forwarded(m, other)
    THEN ResErrForwardedUnsupported(ObjectRefFromObject(self), header(m, other))
    ELSE ResOk(header(m, self) = header(m, other))

\* the address of field field_index
FieldPointer(self, field_index) ==
    as_ptr(self) + SizeOfObjectHeader + field_index * (2 ^ SHIFT_FOR_WORD)

\* variant: a forwarded object has no fields to read
inst_var_at_ChecksForwarded(m, self, field_index) ==
    LET n == amount_of_slots_unchecked(m, self) IN
    IF Aborted(n) THEN n
    ELSE IF is_forwarded(m, self) \/ ~WordLess(FromNat(field_index), n.word) THEN ResNone
    ELSE ResSomeAny(AnyObjectRefFrom(MemRead(m, FieldPointer(self, field_index))))

\* variant: the bounds test lets field_index = slot count through
inst_var_at_InclusiveBound(m, self, field_index) ==
    LET n == amount_of_slots_unchecked(m, self) IN
    IF Aborted(n) THEN n
    ELSE IF WordLess(n.word, FromNat(field_index)) THEN ResNone
    ELSE ResSomeAny(AnyObjectRefFrom(MemRead(m, FieldPointer(self, field_index))))

inst_var_at(m, self, field_index) ==
    LET n == amount_of_slots_unchecked(m, self) IN
    IF Aborted(n) THEN n
    ELSE IF ~WordLess(FromNat(field_index), n.word) THEN ResNone
    ELSE ResSomeAny(AnyObjectRefFrom(MemRead(m, FieldPointer(self, field_index))))

\* variant: the pointer is computed without the size of the header
inst_var_at_put_SkipsHeaderSize(m, self, field_index, object) ==
    LET n == amount_of_slots_unchecked(m, self) IN
    IF Aborted(n) THEN m
    ELSE IF ~WordLess(FromNat(field_index), n.word) THEN m
    ELSE MemWrite(m, as_ptr(self) + field_index * (2 ^ SHIFT_FOR_WORD), as_i64(object))

\* variant: the field index is used as a byte offset, without the shift
inst_var_at_put_UnshiftedIndex(m, self, field_index, object) ==
    LET n == amount_of_slots_unchecked(m, self) IN
    IF Aborted(n) THEN m
    ELSE IF ~WordLess(FromNat(field_index), n.word) THEN m
    ELSE MemWrite(m, as_ptr(self) + SizeOfObjectHeader + field_index, as_i64(object))

\* variant: the bounds test lets field_index = slot count through
inst_var_at_put_InclusiveBound(m, self, field_index, object) ==
    LET n == amount_of_slots_unchecked(m, self) IN
    IF Aborted(n) THEN m
    ELSE IF WordLess(n.word, FromNat(field_index)) THEN m
    ELSE MemWrite(m, FieldPointer(self, field_index), as_i64(object))

\* the memory after inst_var_at_put
inst_var_at_put(m, self, field_index, object) ==
    LET n == amount_of_slots_unchecked(m, self) IN
    IF Aborted(n) THEN m
    ELSE IF ~WordLess(FromNat(field_index), n.word) THEN m
    ELSE MemWrite(m, FieldPointer(self, field_index), as_i64(object))

----------------------------------------------------------------------------
(* ObjectRef: a transparent wrapper of the raw pointer *)

\* ObjectRef::into_inner: the wrapped pointer
into_inner(ref) == ref

\* variant: the test of is_immediate is inverted
try_from_Inverted(value) ==
    IF is_immediate(value) THEN ResOkRef(value) ELSE ResErrNotAnObject(value)

\* variant: every pointer is wrapped
try_from_Unchecked(value) == ResOkRef(value)

\* impl TryFrom<RawObjectPointer> for ObjectRef
try_from(value) ==
    IF ~is_immediate(value) THEN ResOkRef(value) ELSE ResErrNotAnObject(value)

----------------------------------------------------------------------------
(* The heaps the operations run on *)

\* a fixed-size pointer object of NumFixedSlots slots, no identity hash yet
FixedHeader == MkHeader(NumFixedSlots, 0, 1, 1000)

\* an object of no slots; the allocator still gives it one word of storage
EmptyHeader == MkHeader(0, 0, 0, 9)

\* a variable-size pointer object whose slot count is kept out of band
LargeHeader == MkHeader(NumSlotsEscape, 5, 2, 51)

LargeSlots == NumSlotsEscape + ExtraSlots

\* the extended count word: the count, under a top byte of 255
ExtendedCountWord(n) == [FromNat(n) EXCEPT ![1] = NumSlotsEscape]

\* small heap: pad, P = header + slots 1..N, Q = the same again, Z = header + pad
SmallP == WordAddr(1)
SmallQ == WordAddr(NumFixedSlots + 2)
SmallZ == WordAddr(2 * NumFixedSlots + 3)
SmallObjects == {SmallP, SmallQ, SmallZ}

SmallHeap ==
    [k \in 0..(2 * NumFixedSlots + 4) |->
        IF k = 0 \/ k = 2 * NumFixedSlots + 4 THEN ZeroWord
        ELSE IF k = 1 \/ k = NumFixedSlots + 2 THEN FixedHeader
        ELSE IF k = 2 * NumFixedSlots + 3 THEN EmptyHeader
        ELSE IF k <= NumFixedSlots + 1 THEN SmallInteger(k - 1)
        ELSE SmallInteger(k - NumFixedSlots - 2)]

\* large heap: extended count, Big = header + LargeSlots slots, Z = header + pad
LargeBig == WordAddr(1)
LargeZ == WordAddr(LargeSlots + 2)
LargeObjects == {LargeBig, LargeZ}

LargeHeap ==
    [k \in 0..(LargeSlots + 3) |->
        IF k = 0 THEN ExtendedCountWord(LargeSlots)
        ELSE IF k = 1 THEN LargeHeader
        ELSE IF k = LargeSlots + 2 THEN EmptyHeader
        ELSE ZeroWord]

\* the field indices the callers use
FieldIndices ==
    IF objects = LargeObjects
    THEN {0, LargeSlots - 1, LargeSlots}
    ELSE {0, 1, NumFixedSlots - 1, NumFixedSlots}

\* the field indices the callers write to: first, last and one past the last
PutIndices ==
    IF objects = LargeObjects
    THEN {0, LargeSlots - 1, LargeSlots}
    ELSE {0, NumFixedSlots - 1, NumFixedSlots}

\* the raw pointers the callers convert: null, three immediates, the address
\* of an object and an aligned word that is no heap address
RawPointers ==
    { ZeroWord, SmallInteger(7), FromNat(2), FromNat(4), FromNat(WordAddr(1)),
      <<255, 255, 255, 255, 255, 255, 255, 248>> }

\* the values the callers store: an immediate and a reference
PutValues ==
    {AnyObjectRefFrom(SmallInteger(7)), AnyObjectRefFrom(FromNat(WordAddr(1)))}

----------------------------------------------------------------------------
(* State machine *)

Call(op, self, other, index, value, res) ==
    [op |-> op, self |-> self, other |-> other, index |-> index,
     value |-> value, res |-> res]

NoCall == Call("none", 0, 0, 0, ZeroWord, ResUnit)

\* no operation is between two of its steps
Idle == [op |-> "none", self |-> 0, other |-> 0, pc |-> "idle", raced |-> FALSE]

\* the caller is between two calls; after a panic the process is gone
Running == last = NoCall

Init ==
    /\ \/ mem = SmallHeap /\ objects = SmallObjects
       \/ mem = LargeHeap /\ objects = LargeObjects
    /\ last = NoCall
    /\ puts = {}
    /\ writes = 0
    /\ gcSteps = 0
    /\ forwards = {}
    /\ inflight = Idle

Query(call) ==
    /\ Running
    /\ last' = call
    /\ UNCHANGED <<mem, objects, puts, writes, gcSteps, forwards, inflight>>

AmountOfSlots(o) ==
    Query(Call("amount_of_slots", o, o, 0, ZeroWord, amount_of_slots(mem, o)))

AmountOfSlotsUnchecked(o) ==
    Query(Call("amount_of_slots_unchecked", o, o, 0, ZeroWord,
               amount_of_slots_unchecked(mem, o)))

IsForwarded(o) ==
    Query(Call("is_forwarded", o, o, 0, ZeroWord, ResBool(is_forwarded(mem, o))))

IsIdentical(o, second) ==
    Query(Call("is_identical", o, second, 0, ZeroWord, is_identical(mem, o, second)))

Equals(o, other) ==
    Query(Call("equals", o, other, 0, ZeroWord, equals(mem, o, other)))

InstVarAt(o, i) ==
    Query(Call("inst_var_at", o, o, i, ZeroWord, inst_var_at(mem, o, i)))

TryFrom(p) ==
    Query(Call("try_from", 0, 0, 0, p, try_from(p)))

InstVarAtPut(o, i, v) ==
    LET n == amount_of_slots_unchecked(mem, o)
        after == inst_var_at_put(mem, o, i, v)
    IN  /\ Running
        /\ after # mem => writes < MaxWrites
        /\ mem' = after
        /\ writes' = IF after # mem THEN writes + 1 ELSE writes
        /\ last' = Call("inst_var_at_put", o, o, i, as_i64(v),
                        IF Aborted(n) THEN n ELSE ResUnit)
        /\ puts' = IF Aborted(n) \/ ~WordLess(FromNat(i), n.word)
                   THEN puts
                   ELSE {p \in puts : ~(p.self = o /\ p.index = i)}
                          \cup {[self |-> o, index |-> i, value |-> as_i64(v)]}
        /\ forwards' = IF ~Aborted(n) /\ WordLess(FromNat(i), n.word)
                       THEN {IF f.obj = o /\ i = 0 THEN [f EXCEPT !.intact = FALSE]
                                                   ELSE f : f \in forwards}
                       ELSE forwards
        /\ UNCHANGED <<objects, gcSteps, inflight>>

\* the collector moves o to target: forwarding marker and forwarding pointer
Forward(o, target) ==
    /\ Running
    /\ gcSteps < MaxGcSteps
    /\ ~is_forwarded(mem, o)
    /\ mem' = MemWrite(
                MemWrite(mem, o, WithClassIndex(header(mem, o),
                                                FORWARDED_OBJECT_CLASS_INDEX_PUN)),
                o + SizeOfObjectHeader, FromNat(target))
    /\ gcSteps' = gcSteps + 1
    /\ puts' = {}
    /\ last' = Call("forward", o, target, 0, ZeroWord, ResUnit)
    /\ forwards' = forwards \cup {[obj |-> o, target |-> target, intact |-> TRUE]}
    /\ UNCHANGED <<objects, writes, inflight>>

\* the collector reclaims o: the header becomes that of a free chunk
Free(o) ==
    /\ Running
    /\ gcSteps < MaxGcSteps
    /\ ~is_forwarded(mem, o)
    /\ mem' = MemWrite(mem, o, WithClassIndex(header(mem, o), 0))
    /\ gcSteps' = gcSteps + 1
    /\ puts' = {}
    /\ last' = Call("free", o, o, 0, ZeroWord, ResUnit)
    /\ UNCHANGED <<objects, writes, forwards, inflight>>

\* the caller takes the result of the call; a panic is final
Return ==
    /\ last # NoCall
    /\ ~Aborted(last.res)
    /\ last' = NoCall
    /\ UNCHANGED <<mem, objects, puts, writes, gcSteps, forwards, inflight>>

Next ==
    \/ \E o \in objects : AmountOfSlots(o)
    \/ \E o \in objects : AmountOfSlotsUnchecked(o)
    \/ \E o \in objects : IsForwarded(o)
    \/ \E o \in objects, second \in objects : IsIdentical(o, second)
    \/ \E o \in objects, other \in objects : Equals(o, other)
    \/ \E o \in objects, i \in FieldIndices : InstVarAt(o, i)
    \/ \E o \in objects, i \in PutIndices, v \in PutValues : InstVarAtPut(o, i, v)
    \/ \E o \in objects : \E target \in objects \ {o} : Forward(o, target)
    \/ \E o \in objects : Free(o)
    \/ \E p \in RawPointers : TryFrom(p)
    \/ Return

Spec == Init /\ [][Next]_vars

----------------------------------------------------------------------------
(* The header functions on arbitrary input: one object whose header and    *)
(* whose preceding word are drawn from the values below.                   *)

HeaderInputs ==
    {MkHeader(n, h, f, c) : n \in {0, 1, 3, 254, 255}, h \in {0, 5},
                            f \in {1, 16}, c \in {0, 1, 8, 9, 1000, 4194303}}

PrecedingWords ==
    { ZeroWord,
      ExtendedCountWord(256),
      ExtendedCountWord(7),
      <<1, 2, 3, 4, 5, 6, 7, 8>>,
      <<0, 128, 0, 0, 0, 0, 0, 0>>,
      <<255, 255, 255, 255, 255, 255, 255, 255>> }

HeaderObject == WordAddr(1)

InitHeader ==
    /\ \E pre \in PrecedingWords, h \in HeaderInputs :
          mem = [k \in 0..1 |-> IF k = 0 THEN pre ELSE h]
    /\ objects = {HeaderObject}
    /\ last = NoCall
    /\ puts = {}
    /\ writes = 0
    /\ gcSteps = 0
    /\ forwards = {}
    /\ inflight = Idle

NextHeader ==
    \/ \E o \in objects : AmountOfSlots(o)
    \/ \E o \in objects : AmountOfSlotsUnchecked(o)
    \/ \E o \in objects : IsForwarded(o)
    \/ Return

SpecHeader == InitHeader /\ [][NextHeader]_vars

----------------------------------------------------------------------------
(* is_identical and equals step by step, with the collector free to forward *)
(* an object between two steps of the operation in flight.                  *)

Flight(op, self, other, pc) ==
    [op |-> op, self |-> self, other |-> other, pc |-> pc, raced |-> FALSE]

\* the operation in flight returns res
Finish(op, self, other, res) ==
    /\ last' = Call(op, self, other, 0, ZeroWord, res)
    /\ inflight' = [inflight EXCEPT !.op = op, !.self = self, !.other = other,
                                    !.pc = "done"]

\* is_identical, first step: if self.is_forwarded() { return None; }
IsIdenticalBegin(o, second) ==
    /\ last = NoCall /\ inflight = Idle
    /\ IF is_forwarded(mem, o)
       THEN Finish("is_identical", o, second, ResNone)
       ELSE /\ inflight' = Flight("is_identical", o, second, "check_second")
            /\ UNCHANGED last
    /\ UNCHANGED <<mem, objects, puts, writes, gcSteps, forwards>>

\* is_identical, second step: if second.is_forwarded() { return None; }
IsIdenticalCheckSecond ==
    /\ inflight.op = "is_identical" /\ inflight.pc = "check_second"
    /\ IF is_forwarded(mem, inflight.other)
       THEN Finish("is_identical", inflight.self, inflight.other, ResNone)
       ELSE /\ inflight' = [inflight EXCEPT !.pc = "compare"]
            /\ UNCHANGED last
    /\ UNCHANGED <<mem, objects, puts, writes, gcSteps, forwards>>

\* is_identical, last step: Some(self.as_ptr() == second.as_ptr())
IsIdenticalCompare ==
    /\ inflight.op = "is_identical" /\ inflight.pc = "compare"
    /\ Finish("is_identical", inflight.self, inflight.other,
              ResSomeBool(as_ptr(inflight.self) = as_ptr(inflight.other)))
    /\ UNCHANGED <<mem, objects, puts, writes, gcSteps, forwards>>

\* equals, first step: if other.is_forwarded() { return Err(..) }
EqualsBegin(o, other) ==
    /\ last = NoCall /\ inflight = Idle
    /\ IF is_forwarded(mem, other)
       THEN Finish("equals", o, other,
                   ResErrForwardedUnsupported(ObjectRefFromObject(o),
                                              header(mem, other)))
       ELSE /\ inflight' = Flight("equals", o, other, "compare")
            /\ UNCHANGED last
    /\ UNCHANGED <<mem, objects, puts, writes, gcSteps, forwards>>

\* equals, last step: Ok(self.0 == other.0)
EqualsCompare ==
    /\ inflight.op = "equals" /\ inflight.pc = "compare"
    /\ Finish("equals", inflight.self, inflight.other,
              ResOk(header(mem, inflight.self) = header(mem, inflight.other)))
    /\ UNCHANGED <<mem, objects, puts, writes, gcSteps, forwards>>

\* the collector forwards o, between two operations or between two steps of
\* the operation in flight
RaceForward(o, target) ==
    /\ inflight.pc # "done"
    /\ gcSteps < MaxGcSteps
    /\ ~is_forwarded(mem, o)
    /\ mem' = MemWrite(
                MemWrite(mem, o, WithClassIndex(header(mem, o),
                                                FORWARDED_OBJECT_CLASS_INDEX_PUN)),
                o + SizeOfObjectHeader, FromNat(target))
    /\ gcSteps' = gcSteps + 1
    /\ forwards' = forwards \cup {[obj |-> o, target |-> target, intact |-> TRUE]}
    /\ inflight' = IF inflight = Idle THEN Idle ELSE [inflight EXCEPT !.raced = TRUE]
    /\ UNCHANGED <<objects, last, puts, writes>>

\* the caller takes the result
RaceReturn ==
    /\ inflight.pc = "done"
    /\ last' = NoCall
    /\ inflight' = Idle
    /\ UNCHANGED <<mem, objects, puts, writes, gcSteps, forwards>>

NextRace ==
    \/ \E o \in objects, second \in objects : IsIdenticalBegin(o, second)
    \/ IsIdenticalCheckSecond
    \/ IsIdenticalCompare
    \/ \E o \in objects, other \in objects : EqualsBegin(o, other)
    \/ EqualsCompare
    \/ \E o \in objects : \E target \in objects \ {o} : RaceForward(o, target)
    \/ RaceReturn

SpecRace == Init /\ [][NextRace]_vars

----------------------------------------------------------------------------
(* What the claims read from the heap *)

\* the header word of object o
HeaderOf(o) == mem[WordIndex(o)]

\* the word stored before the header of o
WordBefore(o) == mem[WordIndex(o) - 1]

\* the word of slot i of o: the (i+1)-th word after the header
SlotOf(o, i) == mem[WordIndex(o) + 1 + i]

\* the slot count of o in the current heap
SlotCount(o) == amount_of_slots_unchecked(mem, o)

\* i is a field index of o
InRange(o, i) == SlotCount(o).kind = "Usize" /\ WordLess(FromNat(i), SlotCount(o).word)

----------------------------------------------------------------------------
(* Claims about the header functions, under SpecHeader *)

\* the object of the last call
Self == last.self

\* C4: amount_of_slots hits its assertion exactly when the class_index of the
\* header is <= 8; with class_index > 8 the assertion passes and the outcome
\* is that of amount_of_slots_unchecked.
C4_AssertExactlyOnReservedClass ==
    last.op = "amount_of_slots" =>
        /\ (last.res.kind = "AssertPanic") <=> (HeaderClassIndex(HeaderOf(Self)) <= 8)
        /\ HeaderClassIndex(HeaderOf(Self)) > 8 =>
              last.res = amount_of_slots_unchecked(mem, Self)

\* amount_of_slots returned a count for a live object whose count is extended
C4_Witness ==
    /\ last.op = "amount_of_slots"
    /\ HeaderClassIndex(HeaderOf(Self)) = 9
    /\ HeaderNumSlots(HeaderOf(Self)) = 255
    /\ last.res = ResUsize(FromNat(256))

\* C5: is_forwarded returns a boolean for every header, true exactly when
\* class_index is in 0..8, which is exactly when amount_of_slots would hit
\* its assertion.
C5_IsForwardedIffReservedClass ==
    last.op = "is_forwarded" =>
        /\ last.res.kind = "Bool"
        /\ last.res.flag <=> (HeaderClassIndex(HeaderOf(Self)) \in 0..8)
        /\ last.res.flag <=> (amount_of_slots(mem, Self).kind = "AssertPanic")

\* is_forwarded answered true at the upper end of the reserved range
C5_Witness ==
    /\ last.op = "is_forwarded"
    /\ HeaderClassIndex(HeaderOf(Self)) = 8
    /\ last.res = ResBool(TRUE)

\* C6: with an inline num_slots below 255, amount_of_slots_unchecked returns
\* num_slots, whatever the class_index, the format and the word before the
\* header.
C6_InlineCount ==
    (last.op = "amount_of_slots_unchecked" /\ HeaderNumSlots(HeaderOf(Self)) < 255) =>
        last.res = ResUsize(FromNat(HeaderNumSlots(HeaderOf(Self))))

\* the inline count 254 returned for a free object that follows a non-zero word
C6_Witness ==
    /\ last.op = "amount_of_slots_unchecked"
    /\ HeaderNumSlots(HeaderOf(Self)) = 254
    /\ HeaderClassIndex(HeaderOf(Self)) = 0
    /\ WordBefore(Self) = <<255, 255, 255, 255, 255, 255, 255, 255>>
    /\ last.res = ResUsize(FromNat(254))

\* the word with its low byte cleared
LowByteCleared(w) == [w EXCEPT ![8] = 0]

\* the word with its high byte cleared
HighByteCleared(w) == [w EXCEPT ![1] = 0]

\* bit 55 of the word
Bit55(w) == w[2] >= 128

C8_UncheckedNeverFails ==
    last.op = "amount_of_slots_unchecked" => last.res.kind = "Usize"

----------------------------------------------------------------------------
(* Claims about field access, identity and equality, under Spec *)

\* C1: a read of field i that follows an in-range inst_var_at_put(i, v) on
\* the same object, with no other write to that field and no collector step
\* in between, returns Some(w) with w the machine word of v.
C1_RoundTrip ==
    last.op = "inst_var_at" =>
        \A p \in puts :
            (p.self = Self /\ p.index = last.index) =>
                last.res.kind = "Some" /\ last.res.word = p.value

\* a reference written to the last field of an object, then other calls, then
\* read back
C1_Witness ==
    /\ last.op = "inst_var_at"
    /\ last.index > 0
    /\ \E p \in puts :
          /\ p.self = Self /\ p.index = last.index
          /\ ~is_immediate(p.value)
          /\ last.res.word = p.value
    /\ Cardinality(puts) = 2

\* C2: inst_var_at(i) returns Some(the word of slot i) when i is below the
\* slot count and None otherwise; on an object of 3 slots holding the
\* immediates 1, 2, 3 it returns them in order for 0, 1, 2 and None for 3.
C2_InstVarAtBounds ==
    last.op = "inst_var_at" =>
        /\ SlotCount(Self).kind = "Usize"
        /\ IF WordLess(FromNat(last.index), SlotCount(Self).word)
           THEN last.res.kind = "Some" /\ last.res.word = SlotOf(Self, last.index)
           ELSE last.res = ResNone
        /\ (/\ HeaderNumSlots(HeaderOf(Self)) = 3
            /\ \A i \in 0..2 : SlotOf(Self, i) = SmallInteger(i + 1)) =>
              /\ last.index \in 0..2 =>
                    /\ last.res.kind = "Some"
                    /\ last.res.word = SmallInteger(last.index + 1)
                    /\ last.res.flag
              /\ last.index = 3 => last.res = ResNone

\* the scenario: the object of 3 slots holding 1, 2, 3 is read at index 3
C2_Witness ==
    /\ last.op = "inst_var_at"
    /\ HeaderNumSlots(HeaderOf(Self)) = 3
    /\ \A i \in 0..2 : SlotOf(Self, i) = SmallInteger(i + 1)
    /\ last.index = 3
    /\ last.res = ResNone

\* C3: inst_var_at_put(i, v) with i >= amount_of_slots_unchecked() returns
\* normally and leaves every word of the heap as it was.
C3_OutOfRangePutIsNoOp ==
    [][(/\ last'.op = "inst_var_at_put"
        /\ last = NoCall
        /\ ~InRange(last'.self, last'.index)) =>
            (mem' = mem /\ last'.res = ResUnit)]_vars

\* a write one past the last slot of an object that is followed by another
\* object, in a heap that was written to before
C3_Witness ==
    /\ last.op = "inst_var_at_put"
    /\ objects = SmallObjects
    /\ Self = SmallP
    /\ last.index = NumFixedSlots
    /\ ~InRange(Self, last.index)
    /\ writes > 0

\* C9: is_identical returns None when either object is forwarded and
\* otherwise Some(the two are the same object); two distinct objects with
\* equal headers and slots give Some(false).
C9_IsIdentical ==
    last.op = "is_identical" =>
        last.res = IF \/ HeaderClassIndex(HeaderOf(Self)) <= 8
                      \/ HeaderClassIndex(HeaderOf(last.other)) <= 8
                   THEN ResNone
                   ELSE ResSomeBool(Self = last.other)

\* two distinct live objects with equal headers and equal slots: Some(false)
C9_Witness ==
    /\ last.op = "is_identical"
    /\ objects = SmallObjects
    /\ Self = SmallP /\ last.other = SmallQ
    /\ HeaderOf(SmallP) = HeaderOf(SmallQ)
    /\ \A i \in 0..(NumFixedSlots - 1) : SlotOf(SmallP, i) = SlotOf(SmallQ, i)
    /\ last.res = ResSomeBool(FALSE)

\* C10: equals(a, b) fails with ForwardedUnsupported when b is forwarded and
\* otherwise returns Ok(the header words of a and b are identical); the slots
\* take no part.
C10_Equals ==
    last.op = "equals" =>
        IF HeaderClassIndex(HeaderOf(last.other)) <= 8
        THEN last.res.kind = "ForwardedUnsupported"
        ELSE last.res = ResOk(HeaderOf(Self) = HeaderOf(last.other))

\* Ok(true) for two distinct objects whose slots differ
C10_Witness ==
    /\ last.op = "equals"
    /\ objects = SmallObjects
    /\ Self = SmallP /\ last.other = SmallQ
    /\ \E i \in 0..(NumFixedSlots - 1) : SlotOf(SmallP, i) # SlotOf(SmallQ, i)
    /\ last.res = ResOk(TRUE)

----------------------------------------------------------------------------
(* Claims about equals on a forwarded receiver and about ObjectRef *)

\* C11: equals with a forwarded receiver (class_index <= 8) fails with
\* ForwardedUnsupported and never returns Ok(_).
C11_ForwardedReceiverIsAnError ==
    (last.op = "equals" /\ HeaderClassIndex(HeaderOf(Self)) <= 8) =>
        last.res.kind = "ForwardedUnsupported"

\* C12: ObjectRef::try_from(p) is Err(NotAnObject(p)) exactly when p is
\* immediate, and otherwise Ok(r) with r.into_inner() the word p.
C12_TryFrom ==
    last.op = "try_from" =>
        /\ (last.res.kind = "NotAnObject") <=> is_immediate(last.value)
        /\ last.res.kind = "NotAnObject" => last.res.word = last.value
        /\ ~is_immediate(last.value) =>
              last.res.kind = "OkRef" /\ into_inner(last.res.ref) = last.value

\* an aligned word that is no heap address is wrapped as it is
C12_Witness ==
    /\ last.op = "try_from"
    /\ last.value = <<255, 255, 255, 255, 255, 255, 255, 248>>
    /\ last.res = ResOkRef(last.value)

\* the last call built an ObjectRef: the Ok value of try_from, or the
\* ObjectRef that equals puts in its error
BuiltObjectRef == last.res.kind \in {"OkRef", "ForwardedUnsupported"}

\* C13: no ObjectRef built by try_from or From<&Object> wraps the zero word.
C13_ObjectRefNeverNull ==
    BuiltObjectRef => into_inner(last.res.ref) # ZeroWord

\* C14: every ObjectRef that is built, by try_from or by From<&Object> in
\* equals, wraps a pointer that is not immediate.
C14_ObjectRefNotImmediate ==
    BuiltObjectRef => ~is_immediate(into_inner(last.res.ref))

\* equals built an ObjectRef from its receiver for the error value
C14_Witness ==
    /\ last.op = "equals"
    /\ last.res.kind = "ForwardedUnsupported"
    /\ last.res.ref = FromNat(Self)
    /\ ~is_immediate(last.res.ref)

\* C15: the only abort is the assertion of amount_of_slots on an object with
\* class_index <= 8; every other call completes.
C15_OnlyTheAssertionAborts ==
    Aborted(last.res) =>
        /\ last.op = "amount_of_slots"
        /\ last.res.kind = "AssertPanic"
        /\ HeaderClassIndex(HeaderOf(Self)) <= 8

----------------------------------------------------------------------------
(* Claims about the frame of a field write and about forwarding *)

\* C16: an in-range inst_var_at_put(i, v) changes only the word at
\* header + 8 + 8 * i, to the word of v; is_forwarded, the slot count and
\* equals are the same before and after for every object, and a read changes
\* nothing.
C16_InRangePutWritesOneWord ==
    [][/\ (/\ last'.op = "inst_var_at_put"
           /\ last = NoCall
           /\ InRange(last'.self, last'.index)) =>
              /\ mem' = [mem EXCEPT ![WordIndex(last'.self) + 1 + last'.index]
                                       = last'.value]
              /\ \A o \in objects :
                    /\ is_forwarded(mem', o) = is_forwarded(mem, o)
                    /\ amount_of_slots_unchecked(mem', o)
                         = amount_of_slots_unchecked(mem, o)
                    /\ \A o2 \in objects : equals(mem', o, o2) = equals(mem, o, o2)
       /\ last'.op = "inst_var_at" => mem' = mem]_vars

\* the last field of an object that another object follows was overwritten
C16_Witness ==
    /\ last.op = "inst_var_at_put"
    /\ objects = SmallObjects
    /\ Self = SmallP
    /\ last.index = NumFixedSlots - 1
    /\ SlotOf(Self, last.index) = last.value
    /\ SlotOf(Self, last.index) # SmallInteger(NumFixedSlots)

\* C17 as stated: once the collector has forwarded an object to a target, a
\* holder of the old reference gets is_forwarded() = true and gets the target
\* from inst_var_at(0), whatever the num_slots of the object (here: as long
\* as nobody wrote field 0 since).
C17_StaleReferenceReadsTarget ==
    \A f \in forwards :
        /\ (last.op = "is_forwarded" /\ Self = f.obj) => last.res = ResBool(TRUE)
        /\ (last.op = "inst_var_at" /\ Self = f.obj /\ last.index = 0 /\ f.intact) =>
              last.res.kind = "Some" /\ last.res.word = FromNat(f.target)

\* C17 amended: is_forwarded() is true for every forwarded object;
\* inst_var_at(0) returns the target when the object has at least one slot and
\* field 0 was not written since, and None when the object has no slot.
C17_StaleReferenceReadsTargetIfSlot ==
    \A f \in forwards :
        /\ (last.op = "is_forwarded" /\ Self = f.obj) => last.res = ResBool(TRUE)
        /\ (last.op = "inst_var_at" /\ Self = f.obj /\ last.index = 0) =>
              /\ (InRange(f.obj, 0) /\ f.intact) =>
                    last.res.kind = "Some" /\ last.res.word = FromNat(f.target)
              /\ ~InRange(f.obj, 0) => last.res = ResNone

\* the target read back from field 0 of a forwarded object
C17_Witness ==
    \E f \in forwards :
        /\ last.op = "inst_var_at" /\ Self = f.obj /\ last.index = 0
        /\ HeaderClassIndex(HeaderOf(Self)) = 8
        /\ last.res.kind = "Some" /\ last.res.word = FromNat(f.target)

\* C19: equals never returns Ok(true) when either side is forwarded: a
\* forwarded argument gives the error, a forwarded receiver with a live
\* argument gives Ok(false); and where is_identical is Some(true), equals is
\* Ok(true).
C19_EqualsAndForwarding ==
    /\ last.op = "equals" =>
          /\ (\/ HeaderClassIndex(HeaderOf(Self)) <= 8
              \/ HeaderClassIndex(HeaderOf(last.other)) <= 8) => last.res # ResOk(TRUE)
          /\ HeaderClassIndex(HeaderOf(last.other)) <= 8 =>
                last.res.kind = "ForwardedUnsupported"
          /\ (/\ HeaderClassIndex(HeaderOf(Self)) <= 8
              /\ HeaderClassIndex(HeaderOf(last.other)) > 8) => last.res = ResOk(FALSE)
    /\ (last.op = "is_identical" /\ last.res = ResSomeBool(TRUE)) =>
          equals(mem, Self, last.other) = ResOk(TRUE)

\* a forwarded receiver that differs from its live twin in class_index only
C19_Witness ==
    /\ last.op = "equals"
    /\ HeaderClassIndex(HeaderOf(Self)) = 8
    /\ HeaderClassIndex(HeaderOf(last.other)) > 8
    /\ WithClassIndex(HeaderOf(Self), 8) = WithClassIndex(HeaderOf(last.other), 8)
    /\ last.res = ResOk(FALSE)

----------------------------------------------------------------------------
(* Claim about the collector running between the steps, under SpecRace *)

\* the operation in flight has just returned last.res
Returned == inflight.pc = "done"

\* an object of the last call is forwarded now
ForwardedNow(o) == HeaderClassIndex(HeaderOf(o)) <= 8

\* C18 as stated, for the objects whose forwarding the operations test: with
\* the header rewrite interleaved at any point, is_identical does not return
\* Some(_) when one of its objects is forwarded at the return, and equals does
\* not return Ok(_) when its argument is.
C18_NoResultForForwarded ==
    Returned =>
        /\ (last.op = "is_identical" /\ last.res.kind = "Some") =>
              ~ForwardedNow(Self) /\ ~ForwardedNow(last.other)
        /\ (last.op = "equals" /\ last.res.kind = "Ok") => ~ForwardedNow(last.other)

\* C18 amended: the same, for the operations during which no collector step
\* took place (the collector runs between operations only).
C18_NoResultForForwardedAtSafePoints ==
    (Returned /\ ~inflight.raced) =>
        /\ (last.op = "is_identical" /\ last.res.kind = "Some") =>
              ~ForwardedNow(Self) /\ ~ForwardedNow(last.other)
        /\ (last.op = "equals" /\ last.res.kind = "Ok") => ~ForwardedNow(last.other)

\* is_identical ran after the collector and answered None for a forwarded
\* second object
C18_Witness ==
    /\ Returned /\ ~inflight.raced
    /\ last.op = "is_identical"
    /\ ~ForwardedNow(Self) /\ ForwardedNow(last.other)
    /\ last.res = ResNone

====
